---- MODULE Spec2Model ----
(***************************************************************************)
(* rename-seq: the rename-pattern compiler (RenameSpec::new), the index    *)
(* formatter (RenameSpec::write), the sequencer (zip_single_side_scans),   *)
(* the ZigZag traversal order and the program's main with its ZipVisitor.  *)
(*                                                                         *)
(* A Rust str is modelled as the sequence of its UTF-8 bytes: an ASCII     *)
(* byte is written as its character ("a", "{"), any other byte by its hex  *)
(* name ("xC3").  Byte offsets of the source are 0-based, TLA+ sequences   *)
(* are 1-based; the conversions are written out where they happen.         *)
(*                                                                         *)
(* A usize that comes from a size hint is modelled as [hi, lo], standing   *)
(* for hi * 10^9 + lo with lo < 10^9 (the target has 64-bit pointers), so  *)
(* that values beyond u32::MAX are representable.  Counters of the loop    *)
(* (idx, lengths) stay plain naturals.                                     *)
(***************************************************************************)
EXTENDS Integers, Sequences, FiniteSets, TLC

VARIABLES
    pc,                    \* position of the running function
    rename_spec_str,       \* MainArgs::rename_spec, the pattern string
    go,                    \* MainArgs::go
    allow_warnings,        \* MainArgs::allow_warnings
    order,                 \* MainArgs::order
    selection,             \* what Selection::files() will return
    rename_spec,           \* the Result of RenameSpec::new
    files,                 \* main's Vec<PathBuf>
    files_iter,            \* the iterator handed to zip_single_side_scans
    visitor,               \* the visitor handed to zip_single_side_scans
    max_hinted_size,       \* local of zip_single_side_scans
    max_size_hint_digits,  \* local of zip_single_side_scans
    idx,                   \* enumerate()'s counter; RenameContext::idx
    from,                  \* the item of the current iteration
    to,                    \* the rendered destination
    result,                \* what zip_single_side_scans returned
    exit,                  \* what main returned
    fs,                    \* the paths that exist in the file system
    yielded,               \* history: the items files.next() returned
    visited,               \* history: the (idx, from, to) given to visit
    renamed,               \* history: the fs::rename calls and their outcome
    failures               \* history: number of renames the environment failed

vars == <<pc, rename_spec_str, go, allow_warnings, order, selection,
          rename_spec, files, files_iter, visitor, max_hinted_size,
          max_size_hint_digits, idx, from, to, result, exit, fs,
          yielded, visited, renamed, failures>>

(***************************************************************************)
(* Bounds of the model.                                                    *)
(***************************************************************************)
MaxFiles == 11          \* longest file list
MaxRenameFailures == 2  \* renames the environment may fail in one run
MaxPatIdx == 12         \* largest index rendered in SpecPattern
MaxPatWidth == 3        \* largest padding width rendered in SpecPattern

(***************************************************************************)
(* Option and Result values.                                               *)
(***************************************************************************)
Some(v) == [some |-> TRUE, val |-> v]
None == [some |-> FALSE]
Ok(v) == [tag |-> "Ok", val |-> v]
Err(e) == [tag |-> "Err", err |-> e]
Unset == [tag |-> "Unset"]

(***************************************************************************)
(* str operations on byte sequences.                                       *)
(***************************************************************************)
OpenCurlyBrace == "{"
\* '{'.len_utf8()
OpenCurlyBraceLenUtf8 == 1
\* the literal "padded_idx}"
PaddedIdxClose == <<"p", "a", "d", "d", "e", "d", "_", "i", "d", "x", "}">>

\* &s[start..]: start is a 0-based byte offset
SliceFrom(s, start) == SubSeq(s, start + 1, Len(s))
\* &s[..end]: end is a 0-based byte offset, exclusive
SliceTo(s, end) == SubSeq(s, 1, end)

RECURSIVE FindFrom(_, _, _)
FindFrom(s, c, i) ==
    IF i > Len(s) THEN None
    ELSE IF s[i] = c THEN Some(i - 1)
    ELSE FindFrom(s, c, i + 1)
\* s.find(c) for an ASCII c: the 0-based byte offset of its first occurrence
StrFind(s, c) == FindFrom(s, c, 1)

\* s.strip_prefix(p)
StripPrefix(s, p) ==
    IF Len(s) >= Len(p) /\ SubSeq(s, 1, Len(p)) = p
    THEN Some(SubSeq(s, Len(p) + 1, Len(s)))
    ELSE None

(***************************************************************************)
(* RenameSpec                                                              *)
(***************************************************************************)
RenameSpecNew_ErrAtBrace(s) ==
    LET found == StrFind(s, OpenCurlyBrace) IN
    IF found.some
    THEN LET before == SliceTo(s, found.val)
             after_brace_idx == found.val + OpenCurlyBraceLenUtf8
             after == StripPrefix(SliceFrom(s, after_brace_idx), PaddedIdxClose)
         IN  IF after.some
             THEN Ok([delimited |-> << <<before, "PaddedInteger">> >>,
                      suffix |-> after.val])
             ELSE Err([idx |-> found.val,
                       source |-> "UnexpectedAfterOpenCurlyBrace"])
    ELSE Ok([delimited |-> << >>, suffix |-> s])

\* RenameSpec::new
RenameSpecNew(s) ==
    LET found == StrFind(s, OpenCurlyBrace) IN
    IF found.some
    THEN LET before == SliceTo(s, found.val)
             after_brace_idx == found.val + OpenCurlyBraceLenUtf8
             after == StripPrefix(SliceFrom(s, after_brace_idx), PaddedIdxClose)
         IN  IF after.some
             THEN Ok([delimited |-> << <<before, "PaddedInteger">> >>,
                      suffix |-> after.val])
             ELSE Err([idx |-> after_brace_idx,
                       source |-> "UnexpectedAfterOpenCurlyBrace"])
    ELSE Ok([delimited |-> << >>, suffix |-> s])

HasDynamicContent_Negated(spec) == spec.delimited = << >>

\* RenameSpec::has_dynamic_content
HasDynamicContent(spec) == ~(spec.delimited = << >>)

DigitByte == <<"0", "1", "2", "3", "4", "5", "6", "7", "8", "9">>

RECURSIVE ToDecimal(_)
\* Display of an unsigned integer: its decimal digits, most significant first
ToDecimal(n) ==
    IF n < 10 THEN <<DigitByte[n + 1]>>
    ELSE Append(ToDecimal(n \div 10), DigitByte[(n % 10) + 1])

FormatPadded_Truncating(i, padding) ==
    LET digits == ToDecimal(i) IN
    IF Len(digits) < padding
    THEN [k \in 1..(padding - Len(digits)) |-> "0"] \o digits
    ELSE SubSeq(digits, Len(digits) - padding + 1, Len(digits))

\* format!("{idx:0padding$}") of a usize: zero-filled up to the minimum
\* width, never cut
FormatPadded(i, padding) ==
    LET digits == ToDecimal(i) IN
    IF Len(digits) < padding
    THEN [k \in 1..(padding - Len(digits)) |-> "0"] \o digits
    ELSE digits

RECURSIVE WriteDelimited(_, _, _)
\* the for loop of RenameSpec::write over delimited, from entry k on
WriteDelimited(delimited, ctx, k) ==
    IF k > Len(delimited) THEN << >>
    ELSE LET prefix == delimited[k][1]
             dyn_content == delimited[k][2]
         IN  prefix
             \o (IF dyn_content = "PaddedInteger"
                 THEN FormatPadded(ctx.idx, ctx.max_size_hint_digits)
                 ELSE << >>)
             \o WriteDelimited(delimited, ctx, k + 1)

\* RenameSpec::write into an empty String
Write(spec, ctx) == WriteDelimited(spec.delimited, ctx, 1) \o spec.suffix

RenameContext(i, digits) == [idx |-> i, max_size_hint_digits |-> digits]

(***************************************************************************)
(* usize values of a size hint: [hi, lo] stands for hi * 10^9 + lo.        *)
(***************************************************************************)
Wide(n) == [hi |-> 0, lo |-> n]
\* u32::MAX = 4294967295
U32Max == [hi |-> 4, lo |-> 294967295]

\* u32::try_from(n).is_ok()
FitsU32(n) == n.hi < U32Max.hi \/ (n.hi = U32Max.hi /\ n.lo <= U32Max.lo)

RECURSIVE ILog10(_)
\* floor(log10(k)) of a natural k >= 1
ILog10(k) == IF k < 10 THEN 0 ELSE 1 + ILog10(k \div 10)

\* f64::from(n).log10() as usize, for n >= 1 that fits a u32: every u32 is an
\* exact f64 and log10 is exact at the powers of ten, so the cast yields
\* floor(log10(n))
Log10AsUsize(n) == IF n.hi > 0 THEN 9 + ILog10(n.hi) ELSE ILog10(n.lo)

\* the match on max_hinted_size: Ok(digits), or Err when an unwrap panics
MaxSizeHintDigits(n) ==
    IF n.hi = 0 /\ n.lo = 0 THEN Ok(1)
    ELSE IF FitsU32(n) THEN Ok(Log10AsUsize(n) + 1)
    ELSE Err("TryFromIntError")

\* max.unwrap_or(min) of a size hint
MaxHintedSize(hint) == IF hint.max.some THEN hint.max.val ELSE hint.min

(***************************************************************************)
(* Iterators.  An iterator over the paths xs is [kind, inner, next, count, *)
(* hint]: inner is the slice iterator's remaining range of xs, next the    *)
(* ZigZag's direction, count the enumerate() counter, hint the size hint   *)
(* an iterator of the library's caller declares (kind "Caller").           *)
(***************************************************************************)
\* slice::Iter::next
SliceNext(inner, xs) ==
    IF inner.front > inner.back THEN [item |-> None, inner |-> inner]
    ELSE [item |-> Some(xs[inner.front]),
          inner |-> [inner EXCEPT !.front = @ + 1]]

\* slice::Iter::next_back
SliceNextBack(inner, xs) ==
    IF inner.front > inner.back THEN [item |-> None, inner |-> inner]
    ELSE [item |-> Some(xs[inner.back]),
          inner |-> [inner EXCEPT !.back = @ - 1]]

\* slice::Iter::size_hint: the exact remaining length
SliceSizeHint(inner) ==
    LET n == inner.back - inner.front + 1 IN
    [min |-> Wide(n), max |-> Some(Wide(n))]

ZigZagSizeHint_Default(z) == [min |-> Wide(0), max |-> None]

\* ZigZag::size_hint
ZigZagSizeHint(z) == SliceSizeHint(z.inner)

ZigZagNext_NoFlip(z, xs) ==
    IF z.next = "Forward"
    THEN LET r == SliceNext(z.inner, xs) IN
         IF r.item.some
         THEN [item |-> r.item, it |-> [z EXCEPT !.inner = r.inner]]
         ELSE [item |-> None, it |-> z]
    ELSE LET r == SliceNextBack(z.inner, xs) IN
         IF r.item.some
         THEN [item |-> r.item,
               it |-> [z EXCEPT !.inner = r.inner, !.next = "Forward"]]
         ELSE [item |-> None, it |-> z]

\* ZigZag::next
ZigZagNext(z, xs) ==
    IF z.next = "Forward"
    THEN LET r == SliceNext(z.inner, xs) IN
         IF r.item.some
         THEN [item |-> r.item,
               it |-> [z EXCEPT !.inner = r.inner, !.next = "Backward"]]
         ELSE [item |-> None, it |-> z]
    ELSE LET r == SliceNextBack(z.inner, xs) IN
         IF r.item.some
         THEN [item |-> r.item,
               it |-> [z EXCEPT !.inner = r.inner, !.next = "Forward"]]
         ELSE [item |-> None, it |-> z]

\* ZigZag::new, and the other two ways an iterator is built
NewIter(kind, xs, hint) ==
    [kind |-> kind, inner |-> [front |-> 1, back |-> Len(xs)],
     next |-> "Forward", count |-> 0, hint |-> hint]

NoHint == [min |-> Wide(0), max |-> None]

\* size_hint through Box<dyn Iterator>, Map and, for a caller's iterator,
\* whatever it declares
IterSizeHint(it) ==
    CASE it.kind = "Sequential" -> SliceSizeHint(it.inner)
      [] it.kind = "ZigZag" -> ZigZagSizeHint(it)
      [] it.kind = "Caller" -> it.hint

\* next through Box<dyn Iterator> and Map (p.as_ref() keeps the path)
IterNext(it, xs) ==
    CASE it.kind = "ZigZag" -> ZigZagNext(it, xs)
      [] OTHER -> LET r == SliceNext(it.inner, xs) IN
                  [item |-> r.item, it |-> [it EXCEPT !.inner = r.inner]]

EnumerateNext_FromOne(it, xs) ==
    LET r == IterNext(it, xs) IN
    IF r.item.some
    THEN [item |-> Some([idx |-> it.count + 1, from |-> r.item.val]),
          it |-> [r.it EXCEPT !.count = @ + 1]]
    ELSE [item |-> None, it |-> r.it]

\* Enumerate::next
EnumerateNext(it, xs) ==
    LET r == IterNext(it, xs) IN
    IF r.item.some
    THEN [item |-> Some([idx |-> it.count, from |-> r.item.val]),
          it |-> [r.it EXCEPT !.count = @ + 1]]
    ELSE [item |-> None, it |-> r.it]

(***************************************************************************)
(* The inputs the runs are drawn from.                                     *)
(***************************************************************************)
Jpg == <<".", "j", "p", "g">>
\* the path p<k>.jpg
FileName(k) == <<"p">> \o ToDecimal(k) \o Jpg

Ascending(n) == [i \in 1..n |-> FileName(i - 1)]
Descending(n) == [i \in 1..n |-> FileName(n - i)]
\* a file named twice on the command line
Repeated == <<FileName(0), FileName(1), FileName(0)>>

FileLists ==
    {Ascending(n) : n \in 0..MaxFiles} \cup {Descending(n) : n \in 2..MaxFiles}
    \cup {Repeated}

PhotoPattern ==
    <<"p", "h", "o", "t", "o", "-", "{">> \o PaddedIdxClose \o Jpg
SamePattern == <<"p", "{">> \o PaddedIdxClose \o Jpg
LiteralPattern == <<"a", "s", "d", "f", ".", "t", "x", "t">>
BadPattern == <<"i", "m", "g", "_", "{", "b", "a", "d", "}">>

MainPatterns == {PhotoPattern, SamePattern, LiteralPattern, BadPattern}

Orders == {"Sequential", "SingleSidedScans"}

\* the errors a visitor of the library's caller may break with
VisitorErrors == {"E1", "E2"}

\* sizes a caller's iterator may declare: the small ones, the powers of ten
\* and their predecessors, and the values around u32::MAX and beyond
HintSizes ==
    {Wide(n) : n \in 0..(MaxFiles + 1)}
    \cup {Wide(99), Wide(100), Wide(999), Wide(1000), Wide(999999999),
          [hi |-> 1, lo |-> 0], U32Max, [hi |-> 4, lo |-> 294967296],
          [hi |-> 5, lo |-> 0], [hi |-> 2000000000, lo |-> 0]}

(***************************************************************************)
(* zip_single_side_scans                                                   *)
(***************************************************************************)
\* lib.rs 101-112: the padding width from the size hint; an unwrap that
\* fails panics and the call never returns
ComputePadding ==
    /\ pc = "padding"
    /\ LET n == MaxHintedSize(IterSizeHint(files_iter))
           digits == MaxSizeHintDigits(n)
       IN  /\ max_hinted_size' = Some(n)
           /\ IF digits.tag = "Ok"
              THEN /\ max_size_hint_digits' = digits.val
                   /\ pc' = "next"
              ELSE /\ max_size_hint_digits' = max_size_hint_digits
                   /\ pc' = "panicked"
    /\ UNCHANGED <<rename_spec_str, go, allow_warnings, order, selection,
                   rename_spec, files, files_iter, visitor, idx, from, to,
                   result, exit, fs, yielded, visited, renamed, failures>>

\* lib.rs 113 and 133: the for loop asks files.enumerate() for the next
\* item; when there is none the function returns Ok(())
LoopNext ==
    /\ pc = "next"
    /\ LET r == EnumerateNext(files_iter, files) IN
       /\ files_iter' = r.it
       /\ IF r.item.some
          THEN /\ idx' = r.item.val.idx
               /\ from' = r.item.val.from
               /\ yielded' = Append(yielded, r.item.val.from)
               /\ pc' = "render"
               /\ result' = result
          ELSE /\ result' = Ok("unit")
               /\ pc' = "returned"
               /\ UNCHANGED <<idx, from, yielded>>
    /\ UNCHANGED <<rename_spec_str, go, allow_warnings, order, selection,
                   rename_spec, files, visitor, max_hinted_size,
                   max_size_hint_digits, to, exit, fs, visited, renamed,
                   failures>>

\* lib.rs 114-126: render the destination
Render ==
    /\ pc = "render"
    /\ to' = Write(rename_spec.val, RenameContext(idx, max_size_hint_digits))
    /\ pc' = "visit"
    /\ UNCHANGED <<rename_spec_str, go, allow_warnings, order, selection,
                   rename_spec, files, files_iter, visitor, max_hinted_size,
                   max_size_hint_digits, idx, from, result, exit, fs,
                   yielded, visited, renamed, failures>>

Continue == [tag |-> "Continue"]
Break(e) == [tag |-> "Break", err |-> e]

\* lib.rs 128-131: visit has returned flow for the current item; the match
\* on it
AfterVisit(flow) ==
    /\ visited' = Append(visited, [idx |-> idx, from |-> from, to |-> to,
                                   flow |-> flow])
    /\ IF flow.tag = "Continue"
       THEN /\ pc' = "next"
            /\ result' = result
       ELSE /\ pc' = "returned"
            /\ result' = Err(flow.err)

\* lib.rs 128 with a visitor of the library's caller: it may answer
\* Continue or Break(e) on any item
VisitCaller ==
    /\ pc = "visit"
    /\ visitor.kind = "Caller"
    /\ \E flow \in {Continue} \cup {Break(e) : e \in VisitorErrors} :
          AfterVisit(flow)
    /\ UNCHANGED <<rename_spec_str, go, allow_warnings, order, selection,
                   rename_spec, files, files_iter, visitor, max_hinted_size,
                   max_size_hint_digits, idx, from, to, exit, fs, yielded,
                   renamed, failures>>

(***************************************************************************)
(* main and its ZipVisitor                                                 *)
(***************************************************************************)
\* std::fs::rename on the modelled file system: the outcomes the call can
\* have.  A missing source fails; an existing one is moved over the
\* destination, or the environment fails the call.
RenameOutcomes(src, dst) ==
    IF src \notin fs THEN {[ok |-> FALSE, fs |-> fs]}
    ELSE {[ok |-> TRUE, fs |-> (fs \ {src}) \cup {dst}]}
         \cup (IF failures < MaxRenameFailures
               THEN {[ok |-> FALSE, fs |-> fs]} ELSE {})

ZipVisit_AlwaysRename(dry_run, i, src, dst) ==
    \E out \in RenameOutcomes(src, dst) :
        /\ fs' = out.fs
        /\ renamed' = Append(renamed, [from |-> src, to |-> dst, ok |-> out.ok])
        /\ failures' = IF out.ok \/ src \notin fs THEN failures ELSE failures + 1
        /\ AfterVisit(Continue)

ZipVisit_BreakOnError(dry_run, i, src, dst) ==
    IF dry_run
    THEN /\ UNCHANGED <<fs, renamed, failures>>
         /\ AfterVisit(Continue)
    ELSE \E out \in RenameOutcomes(src, dst) :
            /\ fs' = out.fs
            /\ renamed' = Append(renamed, [from |-> src, to |-> dst, ok |-> out.ok])
            /\ failures' = IF out.ok \/ src \notin fs THEN failures ELSE failures + 1
            /\ AfterVisit(IF out.ok THEN Continue ELSE Break("rename failed"))

\* main.rs 83-104: ZipVisitor::visit and, with it, lib.rs 128-131
ZipVisit(dry_run, i, src, dst) ==
    IF dry_run
    THEN /\ UNCHANGED <<fs, renamed, failures>>
         /\ AfterVisit(Continue)
    ELSE \E out \in RenameOutcomes(src, dst) :
            /\ fs' = out.fs
            /\ renamed' = Append(renamed, [from |-> src, to |-> dst, ok |-> out.ok])
            /\ failures' = IF out.ok \/ src \notin fs THEN failures ELSE failures + 1
            /\ AfterVisit(Continue)

\* lib.rs 128 with main's ZipVisitor
VisitZip ==
    /\ pc = "visit"
    /\ visitor.kind = "ZipVisitor"
    /\ ZipVisit(visitor.dry_run, idx, from, to)
    /\ UNCHANGED <<rename_spec_str, go, allow_warnings, order, selection,
                   rename_spec, files, files_iter, visitor, max_hinted_size,
                   max_size_hint_digits, idx, from, to, exit, yielded>>

\* main.rs 27: compile the pattern, or leave with the error
MainParse ==
    /\ pc = "main_parse"
    /\ rename_spec' = RenameSpecNew(rename_spec_str)
    /\ IF rename_spec'.tag = "Err"
       THEN /\ exit' = Err("failed to parse rename spec")
            /\ pc' = "exit"
       ELSE /\ exit' = exit
            /\ pc' = "main_warn"
    /\ UNCHANGED <<rename_spec_str, go, allow_warnings, order, selection,
                   files, files_iter, visitor, max_hinted_size,
                   max_size_hint_digits, idx, from, to, result, fs, yielded,
                   visited, renamed, failures>>

\* main.rs 29-34: whether main bails after the warning
MainWarnBails(spec, allow) == ~HasDynamicContent(spec) /\ ~allow

\* main.rs 29-34
MainWarn ==
    /\ pc = "main_warn"
    /\ IF MainWarnBails(rename_spec.val, allow_warnings)
       THEN /\ exit' = Err("warning(s) emitted")
            /\ pc' = "exit"
       ELSE /\ exit' = exit
            /\ pc' = "main_select"
    /\ UNCHANGED <<rename_spec_str, go, allow_warnings, order, selection,
                   rename_spec, files, files_iter, visitor, max_hinted_size,
                   max_size_hint_digits, idx, from, to, result, fs, yielded,
                   visited, renamed, failures>>

\* main.rs 36: selection.files()?
MainSelect ==
    /\ pc = "main_select"
    /\ IF selection.tag = "Ok"
       THEN /\ files' = selection.val
            /\ exit' = exit
            /\ pc' = "main_order"
       ELSE /\ files' = files
            /\ exit' = Err(selection.err)
            /\ pc' = "exit"
    /\ UNCHANGED <<rename_spec_str, go, allow_warnings, order, selection,
                   rename_spec, files_iter, visitor, max_hinted_size,
                   max_size_hint_digits, idx, from, to, result, fs, yielded,
                   visited, renamed, failures>>

\* main.rs 43-46: the iterator of the chosen order
MainFilesIter(ord, xs) ==
    IF ord = "Sequential" THEN NewIter("Sequential", xs, NoHint)
    ELSE NewIter("ZigZag", xs, NoHint)

\* main.rs 38-48: dry_run, the boxed iterator, the call of
\* zip_single_side_scans with a ZipVisitor
MainCall ==
    /\ pc = "main_order"
    /\ files_iter' = MainFilesIter(order, files)
    /\ visitor' = [kind |-> "ZipVisitor", dry_run |-> ~go]
    /\ pc' = "padding"
    /\ UNCHANGED <<rename_spec_str, go, allow_warnings, order, selection,
                   rename_spec, files, max_hinted_size, max_size_hint_digits,
                   idx, from, to, result, exit, fs, yielded, visited,
                   renamed, failures>>

\* main.rs 48-55: the result of the call (the visitor's error type is
\* Infallible, an Err would be wrapped and returned)
MainFinish ==
    /\ pc = "returned"
    /\ visitor.kind = "ZipVisitor"
    /\ exit' = IF result.tag = "Ok" THEN Ok("unit")
               ELSE Err("failed to execute zipping operation")
    /\ pc' = "exit"
    /\ UNCHANGED <<rename_spec_str, go, allow_warnings, order, selection,
                   rename_spec, files, files_iter, visitor, max_hinted_size,
                   max_size_hint_digits, idx, from, to, result, fs, yielded,
                   visited, renamed, failures>>

RECURSIVE SeqToSet(_)
SeqToSet(xs) == IF xs = << >> THEN {} ELSE {Head(xs)} \cup SeqToSet(Tail(xs))

\* the program is started with its arguments parsed; the selected files
\* exist
Init ==
    /\ pc = "main_parse"
    /\ rename_spec_str \in MainPatterns
    /\ go \in BOOLEAN
    /\ allow_warnings \in BOOLEAN
    /\ order \in Orders
    /\ selection \in {Ok(l) : l \in FileLists} \cup {Err("file system errors")}
    /\ rename_spec = Unset
    /\ files = << >>
    /\ files_iter = NewIter("Sequential", << >>, NoHint)
    /\ visitor = [kind |-> "ZipVisitor", dry_run |-> TRUE]
    /\ max_hinted_size = None
    /\ max_size_hint_digits = 0
    /\ idx = 0
    /\ from = << >>
    /\ to = << >>
    /\ result = Unset
    /\ exit = Unset
    /\ fs = IF selection.tag = "Ok" THEN SeqToSet(selection.val) ELSE {}
    /\ yielded = << >>
    /\ visited = << >>
    /\ renamed = << >>
    /\ failures = 0

Next ==
    \/ MainParse
    \/ MainWarn
    \/ MainSelect
    \/ MainCall
    \/ ComputePadding
    \/ LoopNext
    \/ Render
    \/ VisitZip
    \/ MainFinish

Spec == Init /\ [][Next]_vars

(***************************************************************************)
(* SpecSeq: zip_single_side_scans called by any caller of the library,     *)
(* with an iterator that declares any size hint and a visitor that may     *)
(* break on any item.                                                      *)
(***************************************************************************)
HintMins == {Wide(0), Wide(3), Wide(10), [hi |-> 4, lo |-> 294967296]}

SizeHints ==
    {[min |-> lo, max |-> hi] :
        lo \in HintMins, hi \in {None} \cup {Some(n) : n \in HintSizes}}

SeqInit ==
    /\ pc = "padding"
    /\ rename_spec_str \in {PhotoPattern, LiteralPattern}
    /\ go = FALSE
    /\ allow_warnings = FALSE
    /\ order = "Sequential"
    /\ selection = Unset
    /\ rename_spec = RenameSpecNew(rename_spec_str)
    /\ files \in {Ascending(n) : n \in 0..MaxFiles}
    /\ \E hint \in SizeHints : files_iter = NewIter("Caller", files, hint)
    /\ visitor = [kind |-> "Caller", dry_run |-> FALSE]
    /\ max_hinted_size = None
    /\ max_size_hint_digits = 0
    /\ idx = 0
    /\ from = << >>
    /\ to = << >>
    /\ result = Unset
    /\ exit = Unset
    /\ fs = {}
    /\ yielded = << >>
    /\ visited = << >>
    /\ renamed = << >>
    /\ failures = 0

SeqNext ==
    \/ ComputePadding
    \/ LoopNext
    \/ Render
    \/ VisitCaller

SpecSeq == SeqInit /\ [][SeqNext]_vars

(***************************************************************************)
(* SpecPattern: RenameSpec::new on a pattern, then RenameSpec::write for   *)
(* an index and a padding width.                                           *)
(***************************************************************************)
PatternPrefixes ==
    {<< >>, <<"a">>, <<"xC3", "xA9">>, <<"i", "m", "g", "_">>, <<"}">>,
     <<"a", "}", "p">>}

PatternGroups ==
    {<< >>,
     <<"{">> \o PaddedIdxClose,
     <<"{", "b", "a", "d", "}">>,
     <<"{">>,
     <<"{", "}">>,
     <<"{", "p", "a", "d", "d", "e", "d", "_", "i", "d", "x">>,
     <<"{", "p", "a", "d", "d", "e", "d", "_", "i", "d", "y", "}">>,
     <<"{", " ">> \o PaddedIdxClose,
     <<"{", "{">> \o PaddedIdxClose}

PatternSuffixes ==
    {<< >>, Jpg, <<"{">>, <<"}">>, <<"b", "}">>, <<"{">> \o PaddedIdxClose,
     <<"xC3", "xA9", "{", "x", "}">>}

Patterns ==
    {p \o g \o x : p \in PatternPrefixes, g \in PatternGroups,
                   x \in PatternSuffixes}

PatternInit ==
    /\ pc = "new"
    /\ rename_spec_str \in Patterns
    /\ go = FALSE
    /\ allow_warnings = FALSE
    /\ order = "Sequential"
    /\ selection = Unset
    /\ rename_spec = Unset
    /\ files = << >>
    /\ files_iter = NewIter("Sequential", << >>, NoHint)
    /\ visitor = [kind |-> "None", dry_run |-> TRUE]
    /\ max_hinted_size = None
    /\ max_size_hint_digits = 0
    /\ idx = 0
    /\ from = << >>
    /\ to = << >>
    /\ result = Unset
    /\ exit = Unset
    /\ fs = {}
    /\ yielded = << >>
    /\ visited = << >>
    /\ renamed = << >>
    /\ failures = 0

\* RenameSpec::new(&rename_spec_str)
PatternNew ==
    /\ pc = "new"
    /\ rename_spec' = RenameSpecNew(rename_spec_str)
    /\ pc' = IF rename_spec'.tag = "Ok" THEN "compiled" ELSE "rejected"
    /\ UNCHANGED <<rename_spec_str, go, allow_warnings, order, selection,
                   files, files_iter, visitor, max_hinted_size,
                   max_size_hint_digits, idx, from, to, result, exit, fs,
                   yielded, visited, renamed, failures>>

\* rename_spec.write(&RenameContext { idx, max_size_hint_digits }, &mut to)
PatternWrite ==
    /\ pc = "compiled"
    /\ \E i \in 0..MaxPatIdx, w \in 1..MaxPatWidth :
          /\ idx' = i
          /\ max_size_hint_digits' = w
          /\ to' = Write(rename_spec.val, RenameContext(i, w))
    /\ pc' = "written"
    /\ UNCHANGED <<rename_spec_str, go, allow_warnings, order, selection,
                   rename_spec, files, files_iter, visitor, max_hinted_size,
                   from, result, exit, fs, yielded, visited, renamed,
                   failures>>

PatternNext ==
    \/ PatternNew
    \/ PatternWrite

SpecPattern == PatternInit /\ [][PatternNext]_vars

(***************************************************************************)
(* What the properties are stated with: the pattern read directly, digit   *)
(* counts by comparison with the powers of ten, decimal values of digit    *)
(* strings.                                                                *)
(***************************************************************************)
HasBrace(s) == \E i \in 1..Len(s) : s[i] = "{"

\* the 1-based position of the first '{' (its byte offset is one less)
FirstBrace(s) ==
    CHOOSE i \in 1..Len(s) : s[i] = "{" /\ \A j \in 1..(i - 1) : s[j] # "{"

\* the eleven bytes after the first '{' read padded_idx}
GroupFollows(s) ==
    LET i == FirstBrace(s) IN
    /\ Len(s) >= i + 11
    /\ \A k \in 1..11 : s[i + k] = PaddedIdxClose[k]

HasGroup(s) == HasBrace(s) /\ GroupFollows(s)

TextBeforeBrace(s) == [k \in 1..(FirstBrace(s) - 1) |-> s[k]]
TextAfterGroup(s) ==
    [k \in 1..(Len(s) - (FirstBrace(s) + 11)) |-> s[FirstBrace(s) + 11 + k]]

\* the number of decimal digits of a natural below 2^31
CountDigits(k) ==
    IF k >= 10^9 THEN 10
    ELSE CHOOSE w \in 1..9 : k < 10^w /\ (w = 1 \/ k >= 10^(w - 1))

\* the number of decimal digits of hi * 10^9 + lo
CountDigitsWide(n) ==
    IF n.hi = 0 THEN CountDigits(n.lo) ELSE 9 + CountDigits(n.hi)

IsDigit(c) == \E d \in 0..9 : DigitByte[d + 1] = c
DigitValue(c) == CHOOSE d \in 0..9 : DigitByte[d + 1] = c

RECURSIVE DecimalValue(_)
DecimalValue(z) ==
    IF z = << >> THEN 0
    ELSE 10 * DecimalValue(SubSeq(z, 1, Len(z) - 1)) + DigitValue(z[Len(z)])

Max(a, b) == IF a >= b THEN a ELSE b

\* the ASCII codes of the bytes the destinations are made of
ByteCode ==
    "-" :> 45 @@ "." :> 46 @@ "0" :> 48 @@ "1" :> 49 @@ "2" :> 50 @@ "3" :> 51
    @@ "4" :> 52 @@ "5" :> 53 @@ "6" :> 54 @@ "7" :> 55 @@ "8" :> 56
    @@ "9" :> 57 @@ "a" :> 97 @@ "d" :> 100 @@ "f" :> 102 @@ "g" :> 103
    @@ "h" :> 104 @@ "j" :> 106 @@ "o" :> 111 @@ "p" :> 112 @@ "s" :> 115
    @@ "t" :> 116 @@ "x" :> 120

RECURSIVE LexLessFrom(_, _, _)
LexLessFrom(a, b, k) ==
    IF k > Len(a) THEN k <= Len(b)
    ELSE IF k > Len(b) THEN FALSE
    ELSE IF a[k] = b[k] THEN LexLessFrom(a, b, k + 1)
    ELSE ByteCode[a[k]] < ByteCode[b[k]]

\* a sorts strictly before b, byte by byte
LexLess(a, b) == LexLessFrom(a, b, 1)

(***************************************************************************)
(* Properties of the pattern compiler and the formatter (SpecPattern).     *)
(***************************************************************************)

\* C4: for a pattern prefix + "{padded_idx}" + suffix whose prefix holds no
\* '{', every index and every padding width w >= 1, the rendered destination
\* is prefix + Z + suffix, where Z is made of decimal digits only, has the
\* value idx, and is as long as the larger of w and idx's digit count: idx
\* zero-padded to w, or idx in full when it has more than w digits.
C4_RenderedIsPrefixPaddedIndexSuffix ==
    (pc = "written" /\ HasGroup(rename_spec_str)) =>
        LET prefix == TextBeforeBrace(rename_spec_str)
            suffix == TextAfterGroup(rename_spec_str)
            z == SubSeq(to, Len(prefix) + 1, Len(to) - Len(suffix))
        IN  /\ max_size_hint_digits >= 1
            /\ Len(to) >= Len(prefix) + Len(suffix)
            /\ to = prefix \o z \o suffix
            /\ Len(z) = Max(max_size_hint_digits, CountDigits(idx))
            /\ \A k \in 1..Len(z) : IsDigit(z[k])
            /\ DecimalValue(z) = idx

\* C4's case: index 12 rendered with padding width 1 is written in full
C4_Witness ==
    /\ pc = "written"
    /\ rename_spec_str = <<"a", "{">> \o PaddedIdxClose \o Jpg
    /\ idx = 12
    /\ max_size_hint_digits = 1
    /\ to = <<"a", "1", "2">> \o Jpg

\* C5: for a pattern that contains '{', RenameSpec::new looks at the first
\* '{' only: it fails iff the bytes right after it do not start with
\* "padded_idx}", the error then carries the byte offset right after that
\* '{' (its offset plus 1; 5 for "img_{bad}") and the one error kind there
\* is; otherwise it succeeds with the text before the '{' as the prefix of
\* the one group and all text after the closing '}' as the suffix.  A
\* pattern without '{' never fails.
C5_FirstBraceDecides ==
    (pc # "new") =>
        /\ (rename_spec.tag = "Err") => HasBrace(rename_spec_str)
        /\ HasBrace(rename_spec_str) =>
            LET brace_offset == FirstBrace(rename_spec_str) - 1 IN
            /\ (rename_spec.tag = "Err") <=> ~GroupFollows(rename_spec_str)
            /\ (rename_spec.tag = "Err") =>
                  /\ rename_spec.err.idx = brace_offset + 1
                  /\ rename_spec.err.source = "UnexpectedAfterOpenCurlyBrace"
            /\ (rename_spec.tag = "Ok") =>
                  /\ rename_spec.val.delimited =
                        << <<TextBeforeBrace(rename_spec_str), "PaddedInteger">> >>
                  /\ rename_spec.val.suffix = TextAfterGroup(rename_spec_str)
        /\ (rename_spec_str = BadPattern) =>
              (rename_spec.tag = "Err" /\ rename_spec.err.idx = 5)

\* C5's case: "img_{bad}" was rejected with offset 5
C5_Witness ==
    /\ pc = "rejected"
    /\ rename_spec_str = BadPattern
    /\ rename_spec.tag = "Err"
    /\ rename_spec.err.idx = 5

\* C6: a pattern without '{' compiles, has no dynamic content, and renders
\* to the pattern itself for every index and padding width; and a compiled
\* pattern has dynamic content exactly when a {padded_idx} group follows
\* its first '{'.
C6_LiteralPatternRendersItself ==
    /\ (pc # "new" /\ ~HasBrace(rename_spec_str)) =>
          /\ rename_spec.tag = "Ok"
          /\ ~HasDynamicContent(rename_spec.val)
          /\ (pc = "written") => (to = rename_spec_str)
    /\ (pc # "new" /\ rename_spec.tag = "Ok") =>
          (HasDynamicContent(rename_spec.val) <=> HasGroup(rename_spec_str))

\* C6's case: a literal pattern rendered for index 7 with width 2
C6_Witness ==
    /\ pc = "written"
    /\ rename_spec_str = <<"a", "}", "p">> \o Jpg
    /\ idx = 7
    /\ max_size_hint_digits = 2
    /\ to = rename_spec_str

(***************************************************************************)
(* Properties of the program (Spec).                                       *)
(***************************************************************************)
\* zip_single_side_scans was called
CallMade == max_hinted_size.some
\* zip_single_side_scans was called and has returned
CallReturned == CallMade /\ pc \in {"returned", "exit"}

\* the file system as the run found it
InitialFs == IF selection.tag = "Ok" THEN SeqToSet(selection.val) ELSE {}

\* the 1-based position in s, of length n, of the item that alternating
\* front, back, front, back yields at 0-based position q
AlternatingPosition(q, n) ==
    IF q % 2 = 0 THEN (q \div 2) + 1 ELSE n - ((q - 1) \div 2)

\* C2: over the file list s of length n, the ZigZag iterator yields s[j] at
\* the even position 2j and s[n-1-j] at the odd position 2j+1 (0-based),
\* never more than n items and, once it is exhausted, exactly n: nothing
\* for n = 0, the one item for n = 1, and p0, p4, p1, p3, p2 for the five
\* files p0..p4.
C2_ZigZagAlternatesEnds ==
    (order = "SingleSidedScans") =>
        LET n == Len(files) IN
        /\ Len(yielded) <= n
        /\ \A p \in 1..Len(yielded) :
              yielded[p] = files[AlternatingPosition(p - 1, n)]
        /\ CallReturned => Len(yielded) = n
        /\ (CallReturned /\ files = Ascending(5)) =>
              yielded = <<FileName(0), FileName(4), FileName(1),
                          FileName(3), FileName(2)>>

\* C2's case: five files were traversed from alternating ends
C2_Witness ==
    /\ order = "SingleSidedScans"
    /\ CallReturned
    /\ files = Ascending(5)
    /\ Len(yielded) = 5
    /\ yielded[2] = FileName(4)

Attempts(log, path) == Cardinality({i \in 1..Len(log) : log[i].from = path})
Occurrences(xs, path) == Cardinality({i \in 1..Len(xs) : xs[i] = path})

\* C8: with --go, ZipVisitor::visit answers Continue for every item whether
\* its rename succeeded or failed: whatever renames fail, the i-th rename
\* attempted is that of the i-th item yielded, to the destination of index
\* i, and when the call has returned every selected file was attempted
\* exactly once and the run ends with Ok.
C8_RenameFailureNeverAborts ==
    go =>
        /\ \A i \in 1..Len(visited) : visited[i].flow = Continue
        /\ Len(renamed) = Len(visited)
        /\ \A i \in 1..Len(renamed) :
              /\ renamed[i].from = yielded[i]
              /\ renamed[i].to = visited[i].to
              /\ visited[i].idx = i - 1
              /\ renamed[i].to =
                    Write(rename_spec.val, RenameContext(i - 1, CountDigits(Len(files))))
        /\ CallReturned =>
              /\ result = Ok("unit")
              /\ Len(renamed) = Len(files)
              /\ \A j \in 1..Len(files) :
                    Attempts(renamed, files[j]) = Occurrences(files, files[j])
        /\ (CallMade /\ pc = "exit") => exit = Ok("unit")

\* C8's case: a real run whose second rename failed went on to rename the
\* rest and ended
C8_Witness ==
    /\ go
    /\ pc = "exit"
    /\ Len(renamed) >= 4
    /\ ~renamed[2].ok
    /\ renamed[3].ok
    /\ renamed[4].ok

\* C9: a rename is performed only if the pattern compiled, it has dynamic
\* content or --allow-warnings was given, and --go was given; a pattern
\* that does not compile ends the run before any file is selected or
\* touched; a dry run visits every item and leaves the file system as it
\* was.
C9_RenameOnlyWhenAllowed ==
    /\ (renamed # << >> \/ fs # InitialFs) =>
          /\ rename_spec.tag = "Ok"
          /\ HasGroup(rename_spec_str) \/ allow_warnings
          /\ go
    /\ (rename_spec.tag = "Err") =>
          /\ pc = "exit"
          /\ exit.tag = "Err"
          /\ ~CallMade
          /\ files = << >>
          /\ visited = << >>
          /\ renamed = << >>
          /\ fs = InitialFs
    /\ (pc = "exit" /\ exit.tag = "Err") => (renamed = << >> /\ fs = InitialFs)
    /\ (~go /\ CallReturned) =>
          /\ Len(visited) = Len(files)
          /\ renamed = << >>
          /\ fs = InitialFs

\* C9's case: a dry run visited its files and changed nothing
C9_Witness ==
    /\ ~go
    /\ CallReturned
    /\ Len(files) >= 3
    /\ Len(visited) = Len(files)
    /\ fs = InitialFs

\* C10: in main, with n files and either order, the size hint the sequencer
\* sees is exactly n, so the padding width is the digit count of n for both
\* orders and for the whole run, no index 0..n-1 has more digits than that,
\* and with a {padded_idx} pattern the destinations of a run have one
\* length, are pairwise distinct and sort in index order.
C10_OneWidthFitsEveryIndex ==
    /\ (pc = "padding") =>
          IterSizeHint(files_iter) =
              [min |-> Wide(Len(files)), max |-> Some(Wide(Len(files)))]
    /\ CallMade =>
        /\ max_hinted_size.val = Wide(Len(files))
        /\ pc # "panicked"
        /\ max_size_hint_digits = CountDigits(Len(files))
        /\ \A i \in 1..Len(visited) :
              CountDigits(visited[i].idx) <= max_size_hint_digits
        /\ HasGroup(rename_spec_str) =>
              \A i, j \in 1..Len(visited) :
                  (i < j) =>
                      /\ Len(visited[i].to) = Len(visited[j].to)
                      /\ visited[i].to # visited[j].to
                      /\ LexLess(visited[i].to, visited[j].to)

\* C10's case: eleven files traversed from alternating ends, named with two
\* digits each
C10_Witness ==
    /\ CallReturned
    /\ order = "SingleSidedScans"
    /\ rename_spec_str = PhotoPattern
    /\ Len(files) = 11
    /\ Len(visited) = 11
    /\ max_size_hint_digits = 2
    /\ visited[11].to = <<"p", "h", "o", "t", "o", "-", "1", "0">> \o Jpg

(***************************************************************************)
(* Properties of the sequencer under any caller (SpecSeq).                 *)
(***************************************************************************)
\* the call is over: it returned, or it panicked
CallOver == pc \in {"returned", "panicked"}

\* the visitor broke on the k-th item it was given
BrokeOn(k) == k \in 1..Len(visited) /\ visited[k].flow.tag = "Break"

\* the size read off the declared hint: the upper bound if there
\* is one, else the lower bound
HintedSize == IF files_iter.hint.max.some THEN files_iter.hint.max.val
              ELSE files_iter.hint.min

\* C1: for every input sequence and every k, if the visitor returns Break(e)
\* on the k-th item it is given, the call returns Err(e) with that e and no
\* item after the k-th is pulled from the iterator, rendered or visited; if
\* the visitor never returns Break, the call ends with the result Ok(()).
C1_BreakStopsElseOk ==
    /\ \A k \in 1..Len(visited) :
          BrokeOn(k) =>
              /\ pc = "returned"
              /\ result = Err(visited[k].flow.err)
              /\ Len(visited) = k
              /\ Len(yielded) = k
              /\ to = visited[k].to
    /\ (CallOver /\ ~\E k \in 1..Len(visited) : BrokeOn(k)) =>
          result = Ok("unit")

\* The calls that return keep that contract, and run to the last item when
\* the visitor never breaks; a call that panics has pulled and visited
\* nothing.
SeqReturnedBreakStopsElseOk ==
    /\ \A k \in 1..Len(visited) :
          BrokeOn(k) =>
              /\ pc = "returned"
              /\ result = Err(visited[k].flow.err)
              /\ Len(visited) = k
              /\ Len(yielded) = k
              /\ to = visited[k].to
    /\ (pc = "returned" /\ ~\E k \in 1..Len(visited) : BrokeOn(k)) =>
          /\ result = Ok("unit")
          /\ Len(yielded) = Len(files)
          /\ Len(visited) = Len(files)
    /\ (pc = "panicked") => (yielded = << >> /\ visited = << >> /\ result = Unset)

\* C3: the padding width is a function of the size hint only: with n the
\* upper bound if present, else the lower bound, the width is 1 for n = 0
\* and else the number of decimal digits of n; so it is always >= 1.
C3_WidthIsDigitCountOfHint ==
    (pc # "padding") =>
        /\ max_size_hint_digits =
              (IF HintedSize = Wide(0) THEN 1 ELSE CountDigitsWide(HintedSize))
        /\ max_size_hint_digits >= 1

\* For the hinted sizes that fit a u32 the width is the digit count (1 for
\* 0); for the others the call panics before the first item is pulled.
SeqWidthIsDigitCountUpToU32Max ==
    (pc # "padding") =>
        IF FitsU32(HintedSize)
        THEN /\ pc # "panicked"
             /\ max_hinted_size = Some(HintedSize)
             /\ max_size_hint_digits =
                   (IF HintedSize = Wide(0) THEN 1 ELSE CountDigitsWide(HintedSize))
             /\ max_size_hint_digits >= 1
        ELSE /\ pc = "panicked"
             /\ yielded = << >>

====
